---- MODULE Spec2Model ----
(***************************************************************************)
(* Model of package asmd (src/asmd/asmd.go): the StateMachine description, *)
(* Validate, FixUpWithDefaults and the VHDL emitter.                       *)
(*                                                                         *)
(* A Go string is a sequence of pieces.  Strings the program inspects      *)
(* (ModuleName, ClockType, decimal numbers) are sequences of       *)
(* one-character pieces; a string literal of the source that is only ever  *)
(* written is one piece, Str("...").  The empty string is <<>>.            *)
(* A nil error is Nil; a *bool is <<>> (nil) or <<b>> (pointer to b).      *)
(* A map is a function whose DOMAIN is the key set.                        *)
(***************************************************************************)
EXTENDS Integers, Sequences, FiniteSets, TLC

VARIABLES payload, m, pc, err, fixups, file, run

vars == <<payload, m, pc, err, fixups, file, run>>

(***************************************************************************)
(* Bounds of the model.                                                    *)
(***************************************************************************)
\* the widest BitWidth a declared variable takes
MaxWidth == 11

\* the number of FixUpWithDefaults calls on one model
MaxFixUps == 2

(***************************************************************************)
(* Strings.                                                                *)
(***************************************************************************)
Str(s) == <<s>>

Nil == <<>>

UpperLetters ==
  <<"A","B","C","D","E","F","G","H","I","J","K","L","M",
    "N","O","P","Q","R","S","T","U","V","W","X","Y","Z">>

LowerLetters ==
  <<"a","b","c","d","e","f","g","h","i","j","k","l","m",
    "n","o","p","q","r","s","t","u","v","w","x","y","z">>

LowerChar(c) ==
  IF \E i \in DOMAIN UpperLetters : UpperLetters[i] = c
  THEN LowerLetters[CHOOSE i \in DOMAIN UpperLetters : UpperLetters[i] = c]
  ELSE c

\* strings.ToLower
ToLower(s) == [i \in DOMAIN s |-> LowerChar(s[i])]

posedge == <<"p","o","s","e","d","g","e">>

negedge == <<"n","e","g","e","d","g","e">>

RECURSIVE Replace(_)
\* strings.NewReplacer(" ", "", "\t", "", "-", "").Replace
Replace(s) ==
  IF s = <<>> THEN <<>>
  ELSE IF Head(s) \in {" ", "\t", "-"} THEN Replace(Tail(s))
  ELSE <<Head(s)>> \o Replace(Tail(s))

Digits == <<"0","1","2","3","4","5","6","7","8","9">>

RECURSIVE FormatUint(_)
\* strconv.FormatUint(n, 10)
FormatUint(n) ==
  IF n < 10 THEN <<Digits[n + 1]>>
  ELSE FormatUint(n \div 10) \o <<Digits[(n % 10) + 1]>>

RECURSIVE Repeat(_, _)
Repeat(s, n) == IF n = 0 THEN <<>> ELSE s \o Repeat(s, n - 1)

RECURSIVE Flatten(_)
Flatten(ss) == IF ss = <<>> THEN <<>> ELSE Head(ss) \o Flatten(Tail(ss))

\* the default indentation unit, one piece
FourSpaces == Str("    ")

(***************************************************************************)
(* The data model.                                                         *)
(***************************************************************************)
Variable(w, t, d) == [BitWidth |-> w, Type |-> t, DefaultValue |-> d]

EmptyMap == <<>>

Put(map, k, v) == (k :> v) @@ map

NilBool == <<>>

BoolPtr(b) == <<b>>

(***************************************************************************)
(* Validate.                                                               *)
(***************************************************************************)
ErrModuleName == Str("No module name specified (m.Options.Modulename).")

ErrClockType(ct) == Str("m.Options.ClockType must be 'negedge' or 'posedge', not ") \o ct

ErrFirstState == Str("m.Options.FirstState not specified.")

ErrInputs == Str("No inputs specified.")

\* variant of ValidateResult: FirstState is checked before ClockType
ValidateSwapped(sm) ==
  IF sm.Options.ModuleName = <<>> THEN ErrModuleName
  ELSE IF sm.Options.FirstState = <<>> THEN ErrFirstState
  ELSE IF ~ (ToLower(sm.Options.ClockType) = posedge \/ ToLower(sm.Options.ClockType) = negedge)
       THEN ErrClockType(sm.Options.ClockType)
  ELSE IF Cardinality(DOMAIN sm.Inputs) = 0 THEN ErrInputs
  ELSE Nil

\* lines 71-95: the error Validate returns, Nil when every check passes
ValidateResult(sm) ==
  IF sm.Options.ModuleName = <<>> THEN ErrModuleName
  ELSE IF ~ (ToLower(sm.Options.ClockType) = posedge \/ ToLower(sm.Options.ClockType) = negedge)
       THEN ErrClockType(sm.Options.ClockType)
  ELSE IF sm.Options.FirstState = <<>> THEN ErrFirstState
  ELSE IF Cardinality(DOMAIN sm.Inputs) = 0 THEN ErrInputs
  ELSE Nil

(***************************************************************************)
(* FixUpWithDefaults.                                                      *)
(***************************************************************************)
\* variant of ResetDefault: an unset AddAsyncReset resolves to false
ResetDefaultOff(r) == IF r = NilBool THEN BoolPtr(FALSE) ELSE r

\* lines 105-108
ResetDefault(r) == IF r = NilBool THEN BoolPtr(TRUE) ELSE r

\* variant of IndentDefault: the default is appended, not assigned when empty
IndentAppend(i) == i \o FourSpaces

\* lines 110-112
IndentDefault(i) == IF i = <<>> THEN FourSpaces ELSE i

\* lines 116-119
InjectClkRst(inputs, reset) ==
  LET withClk == Put(inputs, "clk", Variable(1, <<>>, <<>>))
  IN  IF reset[1] THEN Put(withClk, "rst", Variable(1, <<>>, <<>>)) ELSE withClk

\* lines 97-120: the model FixUpWithDefaults leaves
FixUp(sm) ==
  LET reset == ResetDefault(sm.Options.AddAsyncReset)
  IN  [sm EXCEPT !.Options.trimmedModuleName = Replace(sm.Options.ModuleName),
                 !.Options.AddAsyncReset = reset,
                 !.Options.Indent = IndentDefault(sm.Options.Indent),
                 !.Inputs = InjectClkRst(sm.Inputs, reset)]

(***************************************************************************)
(* The emitter.  A rendering is the sequence of strings VHDL hands to      *)
(* write, in order; file holds the strings the sink accepted.              *)
(***************************************************************************)
\* lines 138-140, the default indent() stores back into the model
IndentOfVHDL(i) == IF i = <<>> THEN FourSpaces ELSE i

\* indent(n)
indent(sm, n) == Repeat(IndentOfVHDL(sm.Options.Indent), n)

Rule == Str("--------------------------------------------------------------------------------\n")

NL == Str("\n")

\* stands for time.Now().Format("2 Jan 2006")
Today == Str("6 Nov 2026")

\* lines 155-163
Comments(sm) ==
  << NL, Rule,
     Str("-- Module Name: "), sm.Options.ModuleName, NL,
     Str("-- Author:      "), sm.Options.Author, NL,
     Str("-- Date:        "), Today, NL,
     Str("--\n"), Rule, NL, NL >>

\* lines 167-170
Library ==
  << Str("library IEEE;\n"), Str("use IEEE.STD_LOGIC_1164.ALL;\n"),
     Str("use IEEE.NUMERIC_STD.ALL;\n"), NL >>

\* line 174
EntityStart(sm) == << Str("entity "), sm.Options.trimmedModuleName, Str(" is\n") >>

InMark == Str(" : in std_logic")

OutMark == Str(" : out std_logic")

GenericMark == Str(": ")

DefaultMark == Str(" := ")

VectorOpen == Str("_vector (")

DowntoZero == Str(" downto 0)")

\* the isFirst branch of lines 182-187, 202-207 and 220-225
Lead(isFirst) == IF isFirst THEN Str("  ") ELSE Str("; ")

\* lines 181-189
GenericEntry(sm, name, isFirst) ==
  << indent(sm, 2), Lead(isFirst), Str(name), GenericMark, sm.Parameters[name].Type,
     DefaultMark, sm.Parameters[name].DefaultValue, NL >>

\* lines 177-192
Generics(sm, pOrd) ==
  IF Cardinality(DOMAIN sm.Parameters) > 0
  THEN << indent(sm, 1), Str("generic (\n") >>
       \o Flatten([i \in DOMAIN pOrd |-> GenericEntry(sm, pOrd[i], i = 1)])
       \o << indent(sm, 1), Str(");\n") >>
  ELSE <<>>

\* variant of InputEntry: the range is written from BitWidth 1 on (>= for >)
InputEntryAlwaysVector(sm, name, isFirst) ==
  << indent(sm, 2), Lead(isFirst), Str(name), InMark >>
  \o (IF sm.Inputs[name].BitWidth >= 1
      THEN << VectorOpen, FormatUint(sm.Inputs[name].BitWidth - 1), DowntoZero >>
      ELSE <<>>)
  \o << NL >>

\* lines 201-212
InputEntry(sm, name, isFirst) ==
  << indent(sm, 2), Lead(isFirst), Str(name), InMark >>
  \o (IF sm.Inputs[name].BitWidth > 1
      THEN << VectorOpen, FormatUint(sm.Inputs[name].BitWidth - 1), DowntoZero >>
      ELSE <<>>)
  \o << NL >>

\* lines 219-230
OutputEntry(sm, name, isFirst) ==
  << indent(sm, 2), Lead(isFirst), Str(name), OutMark >>
  \o (IF sm.Outputs[name].BitWidth > 1
      THEN << VectorOpen, FormatUint(sm.Outputs[name].BitWidth - 1), DowntoZero >>
      ELSE <<>>)
  \o << NL >>

\* lines 194-234; isFirst is not reset between the inputs and the outputs
Ports(sm, iOrd, oOrd) ==
  IF Cardinality(DOMAIN sm.Inputs) > 0 \/ Cardinality(DOMAIN sm.Outputs) > 0
  THEN << indent(sm, 1), Str("port (\n") >>
       \o Flatten([i \in DOMAIN iOrd |-> InputEntry(sm, iOrd[i], i = 1)])
       \o Flatten([i \in DOMAIN oOrd |-> OutputEntry(sm, oOrd[i], iOrd = <<>> /\ i = 1)])
       \o << indent(sm, 1), Str(");\n") >>
  ELSE <<>>

\* lines 237-241
EntityEnd(sm) ==
  << Str("end "), sm.Options.trimmedModuleName, Str(";\n"), NL,
     Str("architecture Behavioral of "), sm.Options.trimmedModuleName, Str(" is\n") >>

\* lines 247-257
Declarations(sm) ==
  << indent(sm, 1), Str("-- FSM declarations\n"),
     indent(sm, 1), Str("type state is ("), Str(");\n"),
     indent(sm, 1), Str("signal state_reg, state_next : state := "), sm.Options.FirstState,
     Str(";\n"), Str("begin\n") >>

\* line 261
ProcessClkRst == Str("process(clk, rst)\n")

\* line 263
IfRst == Str("if (rst='1') then\n")

\* lines 260-264
RegisterReset(sm) ==
  << indent(sm, 1), Str("-- FSM state register\n"),
     indent(sm, 1), ProcessClkRst,
     indent(sm, 1), Str("begin\n"),
     indent(sm, 2), IfRst,
     indent(sm, 3), Str("state_reg <= "), sm.Options.FirstState, Str(";\n") >>

\* lines 272-279
RegisterTail(sm) ==
  << indent(sm, 3), Str("state_reg <= state_next;\n"),
     indent(sm, 2), Str("end if;\n"),
     indent(sm, 1), Str("end process;\n"),
     Str("end Behavioral;\n"), NL >>

RisingEdge == Str("elsif (clk'event and clk='1') then\n")

FallingEdge == Str("elsif (clk'event and clk='0') then\n")

ErrUnrecognizedClock(ct) == Str("Unrecognized clock type: ") \o ct

ErrCreate == Str("open: cannot create file")

\* what precedes the first call of indent(): lines 155-174
Preamble(sm) == Comments(sm) \o Library \o EntityStart(sm)

\* the strings VHDL writes when no write fails (ws), the value it then returns
\* (ret), and how many strings precede the first call of indent() (pre)
Rendering(sm, pOrd, iOrd, oOrd) ==
  LET upToClock == Preamble(sm) \o Generics(sm, pOrd) \o Ports(sm, iOrd, oOrd)
                   \o EntityEnd(sm) \o Declarations(sm) \o RegisterReset(sm)
      pre == Len(Preamble(sm))
  IN  IF sm.Options.ClockType = posedge
      THEN [ws |-> upToClock \o << indent(sm, 2), RisingEdge >> \o RegisterTail(sm),
            ret |-> Nil, pre |-> pre]
      ELSE IF sm.Options.ClockType = negedge
      THEN [ws |-> upToClock \o << indent(sm, 2), FallingEdge >> \o RegisterTail(sm),
            ret |-> Nil, pre |-> pre]
      ELSE [ws |-> upToClock, ret |-> ErrUnrecognizedClock(sm.Options.ClockType), pre |-> pre]

\* the orders in which range may visit the keys of a map
Orders(map) ==
  { o \in [1..Cardinality(DOMAIN map) -> DOMAIN map] :
      \A i, j \in DOMAIN o : i # j => o[i] # o[j] }

\* one rendering for each order in which range visits the three maps
Renderings(sm) ==
  { Rendering(sm, pOrd, iOrd, oOrd) :
      pOrd \in Orders(sm.Parameters), iOrd \in Orders(sm.Inputs), oOrd \in Orders(sm.Outputs) }

\* what the sink holds of a string whose write failed: a proper prefix of it
Partials(s) == { SubSeq(s, 1, j) : j \in {0} \cup (1 .. Len(s) - 1) }

\* write: the strings before the failing one are in the sink, then panic
Written(ws, failAt, part) ==
  SubSeq(ws, 1, failAt - 1) \o (IF part = <<>> THEN <<>> ELSE << part >>)

(***************************************************************************)
(* Decoded payloads: the models json.Unmarshal hands to Validate.          *)
(***************************************************************************)
ModuleNames ==
  { <<>>,
    <<"C","t","r">>,
    <<"M","y"," ","M","o","d","u","l","e","-","A">>,
    <<"a","\t","b">>,
    <<" ","-">> }

ClockTypes ==
  { posedge, negedge,
    <<"P","o","s","E","d","g","e">>,
    <<"N","E","G","E","D","G","E">>,
    <<"c","l","o","c","k">>,
    <<>> }

S0 == Str("S0")

Widths == {1, 2, MaxWidth}

MapsOver(keys, values) == UNION { [ks -> values] : ks \in SUBSET keys }

BaseOptions ==
  [ModuleName |-> <<"C","t","r">>, trimmedModuleName |-> <<>>, ClockType |-> posedge,
   AddAsyncReset |-> NilBool, FirstState |-> S0, Indent |-> <<>>, Author |-> Str("A. Uthor")]

BaseInputs == "en" :> Variable(1, <<>>, <<>>)

Base == [Options |-> BaseOptions, Inputs |-> BaseInputs, Outputs |-> EmptyMap,
         Parameters |-> EmptyMap]

\* every combination of the four validated fields
OptionPayloads ==
  { [Base EXCEPT !.Options.ModuleName = mn, !.Options.ClockType = ct,
                 !.Options.FirstState = fs, !.Inputs = ins] :
      mn \in ModuleNames, ct \in ClockTypes, fs \in {<<>>, S0},
      ins \in {EmptyMap, BaseInputs} }

\* a user-chosen indentation unit
IndentPayloads ==
  { [Base EXCEPT !.Options.Indent = Str("  "), !.Options.ClockType = ct] :
      ct \in {posedge, negedge} }

\* reset policy against user inputs that may already be named clk or rst
ResetPayloads ==
  { [Base EXCEPT !.Options.AddAsyncReset = r, !.Inputs = ins] :
      r \in {NilBool, BoolPtr(TRUE), BoolPtr(FALSE)},
      ins \in MapsOver({"en", "clk", "rst"},
                       {Variable(w, <<>>, <<>>) : w \in {1, MaxWidth}}) \ {EmptyMap} }

ParamValues ==
  { Variable(0, Str("integer"), Str("8")),
    Variable(MaxWidth, Str("std_logic"), <<>>) }

\* ports and generics of every width
PortPayloads ==
  { [Base EXCEPT !.Options.AddAsyncReset = BoolPtr(FALSE),
                 !.Inputs = ins, !.Outputs = outs, !.Parameters = ps] :
      ins \in {"d" :> Variable(w, <<>>, <<>>) : w \in Widths},
      outs \in MapsOver({"q"}, {Variable(w, <<>>, <<>>) : w \in {0} \cup Widths}),
      ps \in { wd @@ n : wd \in MapsOver({"WIDTH"}, {Variable(0, Str("integer"), Str("8"))}),
                         n \in MapsOver({"N"}, ParamValues) } }

Payloads == OptionPayloads \cup IndentPayloads \cup ResetPayloads \cup PortPayloads

NoRun == [status |-> "none", err |-> Nil, wfail |-> FALSE]

Init ==
  /\ payload \in Payloads
  /\ m = payload
  /\ pc = "decoded"
  /\ err = Nil
  /\ fixups = 0
  /\ file = <<>>
  /\ run = NoRun

(***************************************************************************)
(* Actions.                                                                *)
(***************************************************************************)
Validate ==
  /\ pc = "decoded"
  /\ pc' = "validated"
  /\ err' = ValidateResult(m)
  /\ UNCHANGED <<payload, m, fixups, file, run>>

FixUpWithDefaults ==
  /\ pc = "validated"
  /\ err = Nil
  /\ run.status # "panic"
  /\ fixups < MaxFixUps
  /\ m' = FixUp(m)
  /\ fixups' = fixups + 1
  /\ UNCHANGED <<payload, pc, err, file, run>>

\* Parse after json.Unmarshal: Validate, then FixUpWithDefaults when it passed
Parse ==
  /\ pc = "decoded"
  /\ pc' = "validated"
  /\ err' = ValidateResult(m)
  /\ IF ValidateResult(m) = Nil
     THEN m' = FixUp(m) /\ fixups' = fixups + 1
     ELSE UNCHANGED <<m, fixups>>
  /\ UNCHANGED <<payload, file, run>>

\* VHDL(filename); os.Create truncates, so each call starts an empty file.
\* A panic of write ends the process: nothing is called after it.
VHDL ==
  /\ fixups >= 1
  /\ run.status # "panic"
  /\ \/ /\ run' = [status |-> "returned", err |-> ErrCreate, wfail |-> FALSE]
        /\ UNCHANGED <<m, file>>
     \/ \E plan \in Renderings(m) :
          \/ /\ file' = plan.ws
             /\ run' = [status |-> "returned", err |-> plan.ret, wfail |-> FALSE]
             /\ m' = [m EXCEPT !.Options.Indent = IndentOfVHDL(@)]
          \/ \E failAt \in 1 .. Len(plan.ws) :
               \E part \in Partials(plan.ws[failAt]) :
                 /\ file' = Written(plan.ws, failAt, part)
                 /\ run' = [status |-> "panic", err |-> Nil, wfail |-> TRUE]
                 /\ m' = IF failAt > plan.pre
                         THEN [m EXCEPT !.Options.Indent = IndentOfVHDL(@)]
                         ELSE m
  /\ UNCHANGED <<payload, pc, err, fixups>>

Next == Validate \/ FixUpWithDefaults \/ Parse \/ VHDL

Spec == Init /\ [][Next]_vars

(***************************************************************************)
(* Properties.                                                             *)
(***************************************************************************)
Validated == pc = "validated"

Accepted == Validated /\ err = Nil

Normalized == fixups >= 1

\* the last VHDL call returned after rendering (os.Create had succeeded)
Rendered == run.status = "returned" /\ run.err # ErrCreate

RenderedOK == run.status = "returned" /\ run.err = Nil

Range(f) == { f[i] : i \in DOMAIN f }

\* the spellings of ClockTypes that are posedge or negedge up to case
RisingSpellings == { posedge, <<"P","o","s","E","d","g","e">> }

FallingSpellings == { negedge, <<"N","E","G","E","D","G","E">> }

\* C1: after a successful Validate and Normalize, Render never returns the
\* "Unrecognized clock type" error: it emits the rising-edge branch for any
\* casing of posedge and the falling-edge branch for any casing of negedge.
C1_ClockErrorUnreachable ==
  (Accepted /\ Normalized /\ Rendered) =>
    /\ run.err = Nil
    /\ (m.Options.ClockType \in RisingSpellings => RisingEdge \in Range(file))
    /\ (m.Options.ClockType \in FallingSpellings => FallingEdge \in Range(file))

\* C2: the rendered register process names rst in its sensitivity list and
\* has the "if (rst='1')" branch exactly when AddAsyncReset resolved to
\* enabled; with AddAsyncReset explicitly false neither is emitted.
C2_ResetBranchIffEnabled ==
  RenderedOK =>
    /\ (ProcessClkRst \in Range(file)) <=> (m.Options.AddAsyncReset = BoolPtr(TRUE))
    /\ (IfRst \in Range(file)) <=> (m.Options.AddAsyncReset = BoolPtr(TRUE))

\* the names of the generic and port entries of a rendering, in output order
EntryNames(f) ==
  LET marked == [i \in 1 .. Len(f) - 1 |-> << f[i], f[i + 1] >>]
      entries == SelectSeq(marked, LAMBDA e : e[2] \in {GenericMark, InMark, OutMark})
  IN  [i \in DOMAIN entries |-> entries[i][1]]

\* C3: two Render runs of the same normalized model emit the generic and
\* port entries in the same order.
C3_StableEntryOrder ==
  [][(RenderedOK /\ RenderedOK' /\ m' = m) => EntryNames(file') = EntryNames(file)]_vars

\* C4: a failed write is delivered as Render's non-nil error result, not as
\* an abrupt termination.
C4_WriteFailureReturned ==
  run.wfail => (run.status = "returned" /\ run.err # Nil)

\* C5: Validate-then-Normalize never overwrites a user-declared clk or rst
\* input with the injected width-1 variable.
C5_NoInjectedCollision ==
  Normalized =>
    \A k \in DOMAIN payload.Inputs \cap {"clk", "rst"} : m.Inputs[k] = payload.Inputs[k]

NameOK == payload.Options.ModuleName # <<>>

ClockOK == payload.Options.ClockType \in RisingSpellings \cup FallingSpellings

FirstStateOK == payload.Options.FirstState # <<>>

InputsOK == DOMAIN payload.Inputs # {}

\* C6: Validate checks ModuleName, ClockType, FirstState, Inputs in that
\* order and returns the error of the first violated check, a different
\* error for each; it returns no error exactly when all four hold.
C6_FirstViolationReported ==
  Validated =>
    /\ (err = Nil) <=> (NameOK /\ ClockOK /\ FirstStateOK /\ InputsOK)
    /\ ~ NameOK => err = ErrModuleName
    /\ (NameOK /\ ~ ClockOK) => err = ErrClockType(payload.Options.ClockType)
    /\ (NameOK /\ ClockOK /\ ~ FirstStateOK) => err = ErrFirstState
    /\ (NameOK /\ ClockOK /\ FirstStateOK /\ ~ InputsOK) => err = ErrInputs
    /\ Cardinality({ErrModuleName, ErrClockType(payload.Options.ClockType),
                    ErrFirstState, ErrInputs, Nil}) = 5

C6_Witness ==
  /\ Validated
  /\ NameOK /\ ~ ClockOK /\ ~ FirstStateOK /\ ~ InputsOK
  /\ err = ErrClockType(payload.Options.ClockType)

\* C7: FixUpWithDefaults applied to an already normalized model leaves the
\* model as it is: same Inputs, AddAsyncReset, Indent and trimmed name.
C7_FixUpIdempotent ==
  [][(Normalized /\ fixups' = fixups + 1) => m' = m]_vars

C7_Witness ==
  /\ fixups = 2
  /\ payload.Options.Indent = <<>>
  /\ payload.Options.AddAsyncReset = NilBool
  /\ DOMAIN m.Inputs = {"en", "clk", "rst"}

\* C8: after Normalize AddAsyncReset is resolved; unset resolves to enabled
\* and Inputs has rst of width 1; explicitly disabled stays disabled and
\* Inputs is the user's Inputs plus clk only; clk of width 1 is always there.
C8_ResetResolved ==
  Normalized =>
    /\ m.Options.AddAsyncReset \in {BoolPtr(TRUE), BoolPtr(FALSE)}
    /\ payload.Options.AddAsyncReset = NilBool =>
         /\ m.Options.AddAsyncReset = BoolPtr(TRUE)
         /\ "rst" \in DOMAIN m.Inputs
         /\ m.Inputs["rst"].BitWidth = 1
    /\ payload.Options.AddAsyncReset = BoolPtr(FALSE) =>
         /\ m.Options.AddAsyncReset = BoolPtr(FALSE)
         /\ DOMAIN m.Inputs = DOMAIN payload.Inputs \cup {"clk"}
         /\ \A k \in DOMAIN payload.Inputs \ {"clk"} : m.Inputs[k] = payload.Inputs[k]
    /\ "clk" \in DOMAIN m.Inputs
    /\ m.Inputs["clk"].BitWidth = 1

C8_Witness ==
  /\ Normalized
  /\ payload.Options.AddAsyncReset = BoolPtr(FALSE)
  /\ DOMAIN payload.Inputs = {"en"}
  /\ DOMAIN m.Inputs = {"en", "clk"}

\* C9: for an accepted model the normalized module name is ModuleName with
\* every space, tab and hyphen removed, the rest kept in order, and it is
\* not empty.
C9_TrimmedNameNonEmpty ==
  (Accepted /\ Normalized) =>
    /\ m.Options.trimmedModuleName =
         SelectSeq(payload.Options.ModuleName, LAMBDA c : c \notin {" ", "\t", "-"})
    /\ m.Options.trimmedModuleName # <<>>

RECURSIVE DecimalValue(_)
\* the number a string of decimal digits denotes
DecimalValue(s) ==
  IF s = <<>> THEN 0
  ELSE 10 * DecimalValue(SubSeq(s, 1, Len(s) - 1))
       + (CHOOSE d \in 0 .. 9 : Digits[d + 1] = s[Len(s)])

IsDecimal(s) ==
  /\ s # <<>>
  /\ \A i \in DOMAIN s : s[i] \in Range(Digits)
  /\ Len(s) > 1 => s[1] # "0"

\* the places of the rendering where the entry of a name starts
EntryAt(name, mark) ==
  { i \in 1 .. Len(file) - 1 : file[i] = Str(name) /\ file[i + 1] = mark }

\* the strings after position i are exactly ss
Follows(i, ss) ==
  /\ i + Len(ss) <= Len(file)
  /\ \A j \in DOMAIN ss : file[i + j] = ss[j]

\* after the type at position i: nothing for width 1, the range for width W > 1
WidthForm(i, w) ==
  /\ w = 1 => file[i + 1] # VectorOpen
  /\ w > 1 =>
       /\ i + 3 <= Len(file)
       /\ file[i + 1] = VectorOpen
       /\ IsDecimal(file[i + 2])
       /\ DecimalValue(file[i + 2]) = w - 1
       /\ file[i + 3] = DowntoZero

PortsHaveWidthForm ==
  /\ \A n \in DOMAIN m.Inputs :
       /\ Cardinality(EntryAt(n, InMark)) = 1
       /\ \A i \in EntryAt(n, InMark) : WidthForm(i + 1, m.Inputs[n].BitWidth)
  /\ \A n \in DOMAIN m.Outputs :
       /\ Cardinality(EntryAt(n, OutMark)) = 1
       /\ \A i \in EntryAt(n, OutMark) : WidthForm(i + 1, m.Outputs[n].BitWidth)

====
